---- MODULE Spec2Model ----
(***************************************************************************)
(* Model of confluence-exporter.py: the export of a Confluence space to a  *)
(* tree of Markdown files.                                                 *)
(*                                                                         *)
(* Strings are sequences of one-character strings, paths are sequences of  *)
(* path segments (each a string in that sense).  A run of export_space is  *)
(* the state machine; the remote space, the --since date and the outcome   *)
(* of every attachment transfer are its inputs.                            *)
(***************************************************************************)
EXTENDS Integers, Sequences, FiniteSets, TLC

(***************************************************************************)
(* Bounds of the model.                                                    *)
(***************************************************************************)
MaxPages == 3      \* pages in the remote space
MaxTitleLen == 3   \* length of the enumerated short names
MaxAtt == 2        \* attachments of a page
MaxBodyLen == 2    \* length of a page body
MaxTime == 2       \* timestamps are 0..MaxTime

(***************************************************************************)
(* Strings.                                                                *)
(***************************************************************************)
Min(a, b) == IF a < b THEN a ELSE b

Rep(c, n) == [k \in 1..n |-> c]

RECURSIVE StringsUpTo(_, _)
StringsUpTo(alphabet, n) ==
  IF n = 0 THEN {<<>>}
  ELSE LET shorter == StringsUpTo(alphabet, n - 1)
       IN  shorter \cup {Append(s, c) : s \in shorter, c \in alphabet}

\* the code points of the characters the model uses (Python compares str by code point)
Ord(c) ==
  CASE c = "\t" -> 9   [] c = "\n" -> 10  [] c = " " -> 32  [] c = "*" -> 42
    [] c = "." -> 46   [] c = "/" -> 47   [] c = ":" -> 58  [] c = "_" -> 95
    [] c = "a" -> 97   [] c = "b" -> 98   [] c = "h" -> 104 [] c = "x" -> 120
    [] c = "y" -> 121  [] OTHER -> 63

\* s < t for Python str: the first differing character decides, a proper prefix is smaller
RECURSIVE StrLess(_, _)
StrLess(s, t) ==
  IF t = <<>> THEN FALSE
  ELSE IF s = <<>> THEN TRUE
  ELSE IF Head(s) = Head(t) THEN StrLess(Tail(s), Tail(t))
  ELSE Ord(Head(s)) < Ord(Head(t))

IsPrefix(k, s) == Len(k) <= Len(s) /\ SubSeq(s, 1, Len(k)) = k

\* str.replace(old, new): leftmost non-overlapping occurrences, old non-empty
RECURSIVE Replace(_, _, _)
Replace(s, old, new) ==
  IF s = <<>> THEN <<>>
  ELSE IF IsPrefix(old, s) THEN new \o Replace(SubSeq(s, Len(old) + 1, Len(s)), old, new)
  ELSE <<Head(s)>> \o Replace(Tail(s), old, new)

(***************************************************************************)
(* sanitize_filename                                                       *)
(***************************************************************************)
InvalidChars == {"<", ">", ":", "\"", "/", "\\", "|", "?", "*"}
Whitespace == {" ", "\t", "\n"}
MaxNameLen == 100

ReplaceInvalid(name) ==
  [k \in 1..Len(name) |-> IF name[k] \in InvalidChars THEN "_" ELSE name[k]]

\* the elements of s at the positions in keep, in order
Pick(s, keep) ==
  [j \in 1..Cardinality(keep) |->
     s[CHOOSE k \in keep : Cardinality({i \in keep : i < k}) = j - 1]]

\* re.sub(r'[\s_]+', '_', name): each maximal run becomes one "_"
IsSeparator(c) == c \in Whitespace \cup {"_"}
CollapseRuns(s) ==
  LET ends == {k \in 1..Len(s) :
                 IsSeparator(s[k]) => (k = Len(s) \/ ~IsSeparator(s[k + 1]))}
      marked == [k \in 1..Len(s) |-> IF IsSeparator(s[k]) THEN "_" ELSE s[k]]
  IN  Pick(marked, ends)

\* as Strip, for name.strip(' ')
StripSpaces(s) ==
  LET inner == {k \in 1..Len(s) : s[k] # " "}
  IN  IF inner = {} THEN <<>>
      ELSE SubSeq(s, CHOOSE k \in inner : \A j \in inner : k <= j,
                     CHOOSE k \in inner : \A j \in inner : k >= j)

\* name.strip('_ ')
Strip(s) ==
  LET inner == {k \in 1..Len(s) : s[k] \notin {"_", " "}}
  IN  IF inner = {} THEN <<>>
      ELSE SubSeq(s, CHOOSE k \in inner : \A j \in inner : k <= j,
                     CHOOSE k \in inner : \A j \in inner : k >= j)

Truncate(s) == IF Len(s) > MaxNameLen THEN SubSeq(s, 1, MaxNameLen) ELSE s

sanitize_filename(name) == Truncate(Strip(CollapseRuns(ReplaceInvalid(name))))

(***************************************************************************)
(* pathlib.Path                                                            *)
(***************************************************************************)
Dot == <<".">>
OutputDir == << <<"o", "u", "t">> >>
AttachmentsName == <<"a", "t", "t", "a", "c", "h", "m", "e", "n", "t", "s">>
IndexMdName == <<"i", "n", "d", "e", "x", ".", "m", "d">>
IndexFileName == <<"I", "N", "D", "E", "X", ".", "m", "d">>

\* path / segment: pathlib drops an empty segment and a "." segment
PathJoin(path, segment) ==
  IF segment = <<>> \/ segment = Dot THEN path ELSE Append(path, segment)

\* path.relative_to(base), for a path under base
RelativeTo(path, base) == SubSeq(path, Len(base) + 1, Len(path))

\* str(path) of a relative path: the segments joined by "/", "." when there are none
RECURSIVE JoinSegments(_)
JoinSegments(path) ==
  IF path = <<>> THEN <<>>
  ELSE IF Len(path) = 1 THEN path[1]
  ELSE path[1] \o <<"/">> \o JoinSegments(Tail(path))
PathStr(path) == IF path = <<>> THEN Dot ELSE JoinSegments(path)

\* mkdir(parents=True, exist_ok=True): the directory and every ancestor of it
Mkdir(existing, path) == existing \cup {SubSeq(path, 1, k) : k \in 1..Len(path)}

\* d[key] = value on a dict kept as a function
DictSet(d, key, value) ==
  IF key \in DOMAIN d THEN [d EXCEPT ![key] = value] ELSE d @@ (key :> value)

EmptyDict == [k \in {} |-> <<>>]

(***************************************************************************)
(* The state of a run.                                                     *)
(***************************************************************************)
VARIABLES
  space,          \* the remote space: the pages the API lists, in listing order
  since_date,     \* self.since_date: NoDate or a day
  pc,             \* where export_space is
  pages,          \* the export page set, fetch_all_pages's result
  pages_by_id,    \* self.pages_by_id
  roots,          \* hierarchy['roots']
  children_map,   \* hierarchy['children_map']
  page_paths,     \* self.page_paths
  idx,            \* position of the page export_space's loop is at
  url_mapping,    \* the current page's mapping, a dict in insertion order
  md_content,     \* the current page's Markdown
  dirs,           \* directories of the file system
  files,          \* files of the file system: path -> content
  requested,      \* the URLs asked of the HTTP session, in order
  console,        \* the lines printed per attachment: <<line, position of the page, name>>
  trace           \* the steps taken so far, each <<step, position of the page>>

vars == <<space, since_date, pc, pages, pages_by_id, roots, children_map, page_paths,
          idx, url_mapping, md_content, dirs, files, requested, console, trace>>

NoDate == -1

(***************************************************************************)
(* fetch_all_pages                                                         *)
(***************************************************************************)
limit == 50

\* confluence.get_all_pages_from_space(space_key, start, limit)
GetAllPagesFromSpace(remote, start) ==
  SubSeq(remote, start + 1, Min(start + limit, Len(remote)))

RECURSIVE FetchLoop(_, _, _)
FetchLoop(remote, all_pages, start) ==
  LET got == GetAllPagesFromSpace(remote, start)
  IN  IF got = <<>> THEN all_pages
      ELSE IF Len(got) < limit THEN all_pages \o got
      ELSE FetchLoop(remote, all_pages \o got, start + limit)

IndexById(all_pages) ==
  [pid \in {all_pages[k].id : k \in 1..Len(all_pages)} |->
     LET last == CHOOSE k \in 1..Len(all_pages) :
                   /\ all_pages[k].id = pid
                   /\ \A j \in (k + 1)..Len(all_pages) : all_pages[j].id # pid
     IN  all_pages[last]]

\* version.when of a page is "" (missing), a string fromisoformat rejects, or a timestamp
Parses(when) == when.kind = "iso"
ModifiedDate(when) == when.t

\* as KeepPage, with a page modified at the since date itself left out
KeepPageStrictlyAfter(page, since) ==
  IF page.when.kind = "missing" THEN TRUE
  ELSE IF ~Parses(page.when) THEN TRUE
  ELSE ModifiedDate(page.when) > since

KeepPage(page, since) ==
  IF page.when.kind = "missing" THEN TRUE
  ELSE IF ~Parses(page.when) THEN TRUE
  ELSE ModifiedDate(page.when) >= since

DateFilter(all_pages, since) ==
  LET Keep(page) == KeepPage(page, since) IN SelectSeq(all_pages, Keep)

fetch_all_pages(remote, since) ==
  LET all_pages == FetchLoop(remote, <<>>, 0)
  IN  IF since # NoDate THEN DateFilter(all_pages, since) ELSE all_pages

(***************************************************************************)
(* build_hierarchy                                                         *)
(***************************************************************************)
ExportPageIds(page_list) == {page_list[k].id : k \in 1..Len(page_list)}

AddChild(h, parent_id, page) ==
  [h EXCEPT !.children_map =
     IF parent_id \in DOMAIN @ THEN [@ EXCEPT ![parent_id] = Append(@, page)]
     ELSE @ @@ (parent_id :> <<page>>)]

AddRoot(h, page) == [h EXCEPT !.roots = Append(@, page)]

\* as Place, with the first ancestor taken for the parent
PlaceByFirstAncestor(h, page, export_page_ids) ==
  IF page.ancestors = <<>> THEN AddRoot(h, page)
  ELSE LET parent_id == page.ancestors[1]
       IN  IF parent_id \notin export_page_ids THEN AddRoot(h, page)
           ELSE AddChild(h, parent_id, page)

\* as Place, with the nearest ancestor that is in the export set taken for the parent
PlaceUnderNearestExported(h, page, export_page_ids) ==
  LET present == {j \in 1..Len(page.ancestors) : page.ancestors[j] \in export_page_ids}
  IN  IF present = {} THEN AddRoot(h, page)
      ELSE AddChild(h, page.ancestors[CHOOSE j \in present : \A i \in present : i <= j],
                    page)

Place(h, page, export_page_ids) ==
  IF page.ancestors = <<>> THEN AddRoot(h, page)
  ELSE LET parent_id == page.ancestors[Len(page.ancestors)]
       IN  IF parent_id \notin export_page_ids THEN AddRoot(h, page)
           ELSE AddChild(h, parent_id, page)

RECURSIVE PlaceAll(_, _, _, _)
PlaceAll(h, page_list, k, export_page_ids) ==
  IF k > Len(page_list) THEN h
  ELSE PlaceAll(Place(h, page_list[k], export_page_ids), page_list, k + 1, export_page_ids)

build_hierarchy(page_list) ==
  PlaceAll([roots |-> <<>>, children_map |-> EmptyDict], page_list, 1,
           ExportPageIds(page_list))

(***************************************************************************)
(* determine_page_paths                                                    *)
(***************************************************************************)
ChildrenOf(cm, page_id) == IF page_id \in DOMAIN cm THEN cm[page_id] ELSE <<>>

\* as process_page, without the descent into the children
ProcessPageOnly(paths, cm, page, parent_path) ==
  DictSet(paths, page.id, PathJoin(parent_path, sanitize_filename(page.title)))

RECURSIVE process_page(_, _, _, _)
RECURSIVE ProcessEach(_, _, _, _, _)
process_page(paths, cm, page, parent_path) ==
  LET page_path == PathJoin(parent_path, sanitize_filename(page.title))
  IN  ProcessEach(DictSet(paths, page.id, page_path), cm, ChildrenOf(cm, page.id), 1,
                  page_path)
ProcessEach(paths, cm, page_list, k, parent_path) ==
  IF k > Len(page_list) THEN paths
  ELSE ProcessEach(process_page(paths, cm, page_list[k], parent_path), cm, page_list,
                   k + 1, parent_path)

determine_page_paths(paths, hierarchy_roots, cm) ==
  ProcessEach(paths, cm, hierarchy_roots, 1, OutputDir)

(***************************************************************************)
(* download_attachments                                                    *)
(***************************************************************************)
BaseUrl == <<"h", ":">>
AttachmentsPrefix == AttachmentsName \o <<"/">>
Outcomes == {"ok", "get_fail", "open_fail", "write_fail"}

\* d[key] = value on a dict kept in insertion order, as a sequence of entries
MapSet(m, key, value) ==
  IF \E k \in 1..Len(m) : m[k].key = key
  THEN [k \in 1..Len(m) |-> IF m[k].key = key THEN [key |-> key, value |-> value] ELSE m[k]]
  ELSE Append(m, [key |-> key, value |-> value])

MapKeys(m) == {m[k].key : k \in 1..Len(m)}
MapGet(m, key) == LET k == CHOOSE j \in 1..Len(m) : m[j].key = key IN m[k].value

FullUrl(download_url) ==
  IF download_url # <<>> /\ Head(download_url) = "/" THEN BaseUrl \o download_url
  ELSE download_url

LocalValue(filename) == AttachmentsPrefix \o sanitize_filename(filename)

\* as DownloadOne, with the mapping entries made before the transfer is tried
DownloadOneMappedFirst(st, attachment, attachments_dir, outcome, position) ==
  LET filename == attachment.title
      download_url == attachment.download
      full_url == FullUrl(download_url)
      local_path == PathJoin(attachments_dir, sanitize_filename(filename))
      asked == [st EXCEPT
                  !.requested = Append(@, full_url),
                  !.mapping = MapSet(MapSet(@, filename, LocalValue(filename)),
                                     download_url, LocalValue(filename))]
      warned == [asked EXCEPT !.console = Append(@, <<"Warning", position, filename>>)]
  IN  IF outcome = "get_fail" THEN warned
      ELSE IF outcome = "open_fail" \/ local_path \in st.dirs THEN warned
      ELSE IF outcome = "write_fail"
           THEN [warned EXCEPT !.files = DictSet(@, local_path, <<>>)]
      ELSE [asked EXCEPT
              !.files = DictSet(@, local_path, full_url),
              !.console = Append(@, <<"Downloaded", position, filename>>)]

\* one pass of the loop over results; st is [mapping, files, dirs, requested, console]
DownloadOne(st, attachment, attachments_dir, outcome, position) ==
  LET filename == attachment.title
      download_url == attachment.download
      full_url == FullUrl(download_url)
      local_path == PathJoin(attachments_dir, sanitize_filename(filename))
      asked == [st EXCEPT !.requested = Append(@, full_url)]
      warned == [asked EXCEPT !.console = Append(@, <<"Warning", position, filename>>)]
  IN  IF outcome = "get_fail" THEN warned
      ELSE IF outcome = "open_fail" \/ local_path \in st.dirs THEN warned
      ELSE IF outcome = "write_fail"
           THEN [warned EXCEPT !.files = DictSet(@, local_path, <<>>)]
      ELSE [asked EXCEPT
              !.files = DictSet(@, local_path, full_url),
              !.mapping = MapSet(MapSet(@, filename, LocalValue(filename)),
                                 download_url, LocalValue(filename)),
              !.console = Append(@, <<"Downloaded", position, filename>>)]

RECURSIVE DownloadEach(_, _, _, _, _, _)
DownloadEach(st, results, k, attachments_dir, outcomes, position) ==
  IF k > Len(results) THEN st
  ELSE DownloadEach(DownloadOne(st, results[k], attachments_dir, outcomes[k], position),
                    results, k + 1, attachments_dir, outcomes, position)

\* listed is FALSE when get_attachments_from_content raises; mkdir of the attachments
\* directory raises when it or an ancestor of it is a file; both are caught
download_attachments(st, results, page_path, listed, outcomes, position) ==
  LET attachments_dir == PathJoin(page_path, AttachmentsName)
  IN  IF ~listed \/ results = <<>> THEN st
      ELSE IF \E k \in 1..Len(attachments_dir) :
                SubSeq(attachments_dir, 1, k) \in DOMAIN st.files
      THEN st
      ELSE DownloadEach([st EXCEPT !.dirs = Mkdir(@, attachments_dir)], results, 1,
                        attachments_dir, outcomes, position)

(***************************************************************************)
(* handle_drawio_embeds, convert_to_markdown, export_page                  *)
(***************************************************************************)
\* one token stands for a whole <ac:structured-macro ac:name="drawio">...</ac:structured-macro>
DrawioMacro == "<drawio>"
DrawioNote == <<"\n", "\n", ">", "D", "\n", "\n">>

handle_drawio_embeds(html) == Replace(html, <<DrawioMacro>>, DrawioNote)

\* markdownify on text without markup: "*" and "_" come out escaped
RECURSIVE Markdownify(_)
Markdownify(html) ==
  IF html = <<>> THEN <<>>
  ELSE IF Head(html) \in {"*", "_"} THEN <<"\\", Head(html)>> \o Markdownify(Tail(html))
  ELSE <<Head(html)>> \o Markdownify(Tail(html))

\* for original, local in url_mapping.items(): md_content = md_content.replace(original, local)
RECURSIVE Substitute(_, _, _)
Substitute(text, mapping, k) ==
  IF k > Len(mapping) THEN text
  ELSE Substitute(Replace(text, mapping[k].key, mapping[k].value), mapping, k + 1)

\* re.sub(r'\n{3,}', '\n\n', md_content)
RECURSIVE SkipNewlines(_)
SkipNewlines(s) == IF s # <<>> /\ Head(s) = "\n" THEN SkipNewlines(Tail(s)) ELSE s
RECURSIVE CollapseNewlines(_)
CollapseNewlines(s) ==
  IF s = <<>> THEN <<>>
  ELSE IF Len(s) >= 3 /\ s[1] = "\n" /\ s[2] = "\n" /\ s[3] = "\n"
       THEN <<"\n", "\n">> \o CollapseNewlines(SkipNewlines(s))
  ELSE <<Head(s)>> \o CollapseNewlines(Tail(s))

convert_to_markdown(html_content, mapping) ==
  CollapseNewlines(Substitute(Markdownify(html_content), mapping, 1))

RECURSIVE JoinLabels(_)
JoinLabels(names) ==
  IF names = <<>> THEN <<>>
  ELSE IF Len(names) = 1 THEN names[1]
  ELSE names[1] \o <<",", " ">> \o JoinLabels(Tail(names))

FrontMatter(labels) ==
  <<"-", "-", "-", "\n", "l", "a", "b", "e", "l", "s", ":", " ">> \o JoinLabels(labels)
    \o <<"\n", "-", "-", "-", "\n", "\n">>

PageMarkdown(page, mapping) ==
  LET md == convert_to_markdown(handle_drawio_embeds(page.body), mapping)
      titled == <<"#", " ">> \o page.title \o <<"\n", "\n">> \o md
  IN  IF page.labels # <<>> THEN FrontMatter(page.labels) \o titled ELSE titled

(***************************************************************************)
(* create_index                                                            *)
(***************************************************************************)
\* as SortedByTitle, with the listing order kept
Unsorted(page_list) == page_list

\* sorted(page_list, key=lambda p: p['title']): a stable sort
RECURSIVE InsertByTitle(_, _)
InsertByTitle(sorted, page) ==
  IF sorted = <<>> THEN <<page>>
  ELSE IF StrLess(page.title, Head(sorted).title) THEN <<page>> \o sorted
  ELSE <<Head(sorted)>> \o InsertByTitle(Tail(sorted), page)

RECURSIVE SortedByTitle(_)
SortedByTitle(page_list) ==
  IF page_list = <<>> THEN <<>>
  ELSE InsertByTitle(SortedByTitle(SubSeq(page_list, 1, Len(page_list) - 1)),
                     page_list[Len(page_list)])

\* one line of the index: "<indent>- [<title>](<link>)"; page is the id it was written for
IndexLine(page, level, paths) ==
  [indent |-> Rep(" ", 2 * level),
   title  |-> page.title,
   link   |-> PathStr(RelativeTo(paths[page.id], OutputDir)) \o <<"/">> \o IndexMdName,
   page   |-> page.id]

RECURSIVE add_page_to_index(_, _, _, _, _)
RECURSIVE AddEachToIndex(_, _, _, _, _, _)
add_page_to_index(lines, cm, paths, page, level) ==
  AddEachToIndex(Append(lines, IndexLine(page, level, paths)), cm, paths,
                 SortedByTitle(ChildrenOf(cm, page.id)), 1, level + 1)
AddEachToIndex(lines, cm, paths, page_list, k, level) ==
  IF k > Len(page_list) THEN lines
  ELSE AddEachToIndex(add_page_to_index(lines, cm, paths, page_list[k], level), cm, paths,
                      page_list, k + 1, level)

create_index(page_list, hierarchy_roots, cm, paths) ==
  [exported |-> Len(page_list),
   lines |-> AddEachToIndex(<<>>, cm, paths, SortedByTitle(hierarchy_roots), 1, 0)]

(***************************************************************************)
(* export_space, one action per step.                                      *)
(***************************************************************************)
Step(name, position) == trace' = Append(trace, <<name, position>>)

\* lines 292-302: mkdir of the output directory, fetch_all_pages, the empty check
FetchPages ==
  /\ pc = "start"
  /\ dirs' = Mkdir(dirs, OutputDir)
  /\ pages_by_id' = IndexById(FetchLoop(space, <<>>, 0))
  /\ pages' = fetch_all_pages(space, since_date)
  /\ pc' = IF pages' = <<>> THEN "done" ELSE "hierarchy"
  /\ Step("FetchPages", 0)
  /\ UNCHANGED <<space, since_date, roots, children_map, page_paths, idx, url_mapping,
                 md_content, files, requested, console>>

\* lines 304-306
BuildHierarchy ==
  /\ pc = "hierarchy"
  /\ roots' = build_hierarchy(pages).roots
  /\ children_map' = build_hierarchy(pages).children_map
  /\ pc' = "paths"
  /\ Step("BuildHierarchy", 0)
  /\ UNCHANGED <<space, since_date, pages, pages_by_id, page_paths, idx, url_mapping,
                 md_content, dirs, files, requested, console>>

\* lines 308-309, and the entry of the loop of line 312
AssignPaths ==
  /\ pc = "paths"
  /\ page_paths' = determine_page_paths(page_paths, roots, children_map)
  /\ idx' = 1
  /\ pc' = "mkdir"
  /\ Step("AssignPaths", 0)
  /\ UNCHANGED <<space, since_date, pages, pages_by_id, roots, children_map, url_mapping,
                 md_content, dirs, files, requested, console>>

\* export_page, lines 257-264: self.page_paths[page_id] raises KeyError for an id
\* without a path, mkdir raises when the path or an ancestor of it is a file
CreateDir ==
  /\ pc = "mkdir"
  /\ LET page_id == pages[idx].id
     IN  IF page_id \notin DOMAIN page_paths
         THEN /\ pc' = "KeyError"
              /\ UNCHANGED <<dirs, trace>>
         ELSE IF \E k \in 1..Len(page_paths[page_id]) :
                   SubSeq(page_paths[page_id], 1, k) \in DOMAIN files
         THEN /\ pc' = "OSError"
              /\ UNCHANGED <<dirs, trace>>
         ELSE /\ dirs' = Mkdir(dirs, page_paths[page_id])
              /\ pc' = "attachments"
              /\ Step("CreateDir", idx)
  /\ UNCHANGED <<space, since_date, pages, pages_by_id, roots, children_map, page_paths,
                 idx, url_mapping, md_content, files, requested, console>>

\* export_page, lines 266-267: the listing and every transfer succeed or fail
DownloadAttachments ==
  /\ pc = "attachments"
  /\ \E listed \in BOOLEAN :
       \E outcomes \in [1..Len(pages[idx].attachments) -> Outcomes] :
         LET st == download_attachments(
                     [mapping |-> <<>>, files |-> files, dirs |-> dirs,
                      requested |-> requested, console |-> console],
                     pages[idx].attachments, page_paths[pages[idx].id], listed, outcomes,
                     idx)
         IN  /\ url_mapping' = st.mapping
             /\ files' = st.files
             /\ dirs' = st.dirs
             /\ requested' = st.requested
             /\ console' = st.console
  /\ pc' = "markdown"
  /\ Step("DownloadAttachments", idx)
  /\ UNCHANGED <<space, since_date, pages, pages_by_id, roots, children_map, page_paths,
                 idx, md_content>>

\* export_page, lines 269-285
BuildMarkdown ==
  /\ pc = "markdown"
  /\ md_content' = PageMarkdown(pages[idx], url_mapping)
  /\ pc' = "write"
  /\ Step("BuildMarkdown", idx)
  /\ UNCHANGED <<space, since_date, pages, pages_by_id, roots, children_map, page_paths,
                 idx, url_mapping, dirs, files, requested, console>>

\* as WriteFile, with the loop left after the first page
WriteFileThenIndex ==
  /\ pc = "write"
  /\ files' = DictSet(files, Append(page_paths[pages[idx].id], IndexMdName), md_content)
  /\ idx' = idx + 1
  /\ pc' = "index"
  /\ Step("WriteFile", idx)
  /\ UNCHANGED <<space, since_date, pages, pages_by_id, roots, children_map, page_paths,
                 url_mapping, md_content, dirs, requested, console>>

\* export_page, lines 287-290, and the loop of lines 312-313 moving on
WriteFile ==
  /\ pc = "write"
  /\ LET md_file == Append(page_paths[pages[idx].id], IndexMdName)
     IN  IF md_file \in dirs
         THEN /\ pc' = "OSError"
              /\ UNCHANGED <<files, idx, trace>>
         ELSE /\ files' = DictSet(files, md_file, md_content)
              /\ idx' = idx + 1
              /\ pc' = IF idx < Len(pages) THEN "mkdir" ELSE "index"
              /\ Step("WriteFile", idx)
  /\ UNCHANGED <<space, since_date, pages, pages_by_id, roots, children_map, page_paths,
                 url_mapping, md_content, dirs, requested, console>>

\* lines 315-318 and create_index
WriteIndex ==
  /\ pc = "index"
  /\ files' = DictSet(files, Append(OutputDir, IndexFileName),
                      create_index(pages, roots, children_map, page_paths))
  /\ pc' = "done"
  /\ Step("WriteIndex", 0)
  /\ UNCHANGED <<space, since_date, pages, pages_by_id, roots, children_map, page_paths,
                 idx, url_mapping, md_content, dirs, requested, console>>

Next ==
  \/ FetchPages
  \/ BuildHierarchy
  \/ AssignPaths
  \/ CreateDir
  \/ DownloadAttachments
  \/ BuildMarkdown
  \/ WriteFile
  \/ WriteIndex

(***************************************************************************)
(* The inputs: families of remote spaces.                                  *)
(***************************************************************************)
Iso(t) == [kind |-> "iso", t |-> t]
Missing == [kind |-> "missing", t |-> 0]
Unparsable == [kind |-> "bad", t |-> 0]

Page(id, title, ancestors) ==
  [id |-> id, title |-> title, ancestors |-> ancestors, when |-> Iso(0), body |-> <<>>,
   labels |-> <<>>, attachments |-> <<>>]

\* a run starts with nothing fetched and an empty output
Start(remote, since) ==
  /\ space = remote
  /\ since_date = since
  /\ pc = "start"
  /\ pages = <<>>
  /\ pages_by_id = EmptyDict
  /\ roots = <<>>
  /\ children_map = EmptyDict
  /\ page_paths = EmptyDict
  /\ idx = 0
  /\ url_mapping = <<>>
  /\ md_content = <<>>
  /\ dirs = {}
  /\ files = EmptyDict
  /\ requested = <<>>
  /\ console = <<>>
  /\ trace = <<>>

\* the listings of k pages, page j drawn from choices[j]
RECURSIVE Listings(_, _)
Listings(choices, k) ==
  IF k = 0 THEN {<<>>}
  ELSE {Append(sp, page) : sp \in Listings(choices, k - 1), page \in choices[k]}

\* ancestor chains: none, a parent in or out of the space, an earlier ancestor before it;
\* they need not be the chains of a tree, which build_hierarchy does not check
OutsideId == MaxPages + 1
Chains ==
  {<<>>} \cup {<<p>> : p \in 1..OutsideId} \cup {<<OutsideId, p>> : p \in 1..MaxPages}
    \cup {<<1, OutsideId>>}
HierChoices(k, n) == {Page(k, Rep("a", k), chain) : chain \in Chains}

\* spaces of up to MaxPages pages with ids 1..n in listing order
HierSpaces(most) ==
  UNION {Listings([k \in 1..n |-> HierChoices(k, n)], n) : n \in 0..most}
Init == \E remote \in HierSpaces(MaxPages) : Start(remote, NoDate)
Spec == Init /\ [][Next]_vars

\* titles that sort against the listing order, one that sanitizes to nothing; any other
\* page of the space, or none, as the parent
TitleChoices == {<<"b">>, <<"a">>, <<"*">>}
TitledChoices(k, n) ==
  {Page(k, title, chain) : title \in TitleChoices,
                           chain \in {<<>>} \cup {<<p>> : p \in (1..n) \ {k}}}
TitledSpaces(most) ==
  UNION {Listings([k \in 1..n |-> TitledChoices(k, n)], n) : n \in 0..most}
InitTitles == \E remote \in TitledSpaces(MaxPages) : Start(remote, NoDate)
SpecTitles == InitTitles /\ [][Next]_vars

\* one root page whose title is any short name, or a name around MaxNameLen characters
NameAlphabet == {"a", " ", "_", "*", "."}
Names(most) ==
  StringsUpTo(NameAlphabet, most)
    \cup {s \o Rep(c, MaxNameLen) : s \in StringsUpTo(NameAlphabet, 1), c \in NameAlphabet}
InitNames == \E name \in Names(MaxTitleLen) : Start(<<Page(1, name, <<>>)>>, NoDate)
SpecNames == InitNames /\ [][Next]_vars

\* root pages with every kind of version.when, with and without --since
Timestamps == {Missing, Unparsable} \cup {Iso(t) : t \in 0..MaxTime}
DatedChoices(k, n) == {[Page(k, Rep("a", k), <<>>) EXCEPT !.when = w] : w \in Timestamps}
DatedSpaces(most) ==
  UNION {Listings([k \in 1..n |-> DatedChoices(k, n)], n) : n \in 0..most}
InitDates ==
  \E remote \in DatedSpaces(MaxPages) :
    \E since \in {NoDate} \cup 0..MaxTime : Start(remote, since)
SpecDates == InitDates /\ [][Next]_vars

\* attachments: a plain name, one that sanitizes to another, one that sanitizes to
\* nothing, each with a site-relative or an absolute download reference
Filenames == {<<"x">>, <<"x", " ", "y">>, <<"*">>}
Attachments ==
  {[title |-> f, download |-> prefix \o <<"/">> \o f] :
     f \in Filenames, prefix \in {<<>>, BaseUrl}}
AttachmentLists(n) ==
  UNION {[1..k -> Attachments] : k \in 0..n}

InitAttach ==
  \E atts \in AttachmentLists(MaxAtt) :
    Start(<<[Page(1, <<"a">>, <<>>) EXCEPT !.attachments = atts, !.body = <<"x">>]>>,
          NoDate)
SpecAttach == InitAttach /\ [][Next]_vars

\* one page with any short body, at most one attachment, with and without labels
BodyAlphabet == {"x", "/", "_", DrawioMacro}
InitText ==
  \E body \in StringsUpTo(BodyAlphabet, MaxBodyLen) :
    \E atts \in AttachmentLists(1) :
      \E labels \in {<<>>, << <<"l">>, <<"m">> >>} :
        Start(<<[Page(1, <<"a">>, <<>>) EXCEPT !.attachments = atts, !.body = body,
                                                 !.labels = labels]>>, NoDate)
SpecText == InitText /\ [][Next]_vars

(***************************************************************************)
(* Properties of the hierarchy.                                            *)
(***************************************************************************)
Built == pc \notin {"start", "hierarchy"} /\ pages # <<>>
Assigned == Built /\ pc # "paths"

Positions == 1..Len(pages)
Ids == {pages[k].id : k \in Positions}
LastAncestor(page) == page.ancestors[Len(page.ancestors)]

\* how often a page occurs in a list of pages
Occurrences(page_list, page) == Cardinality({j \in 1..Len(page_list) : page_list[j] = page})
InRoots(page) == Occurrences(roots, page)
InChildren(page) ==
  LET keys == {key \in DOMAIN children_map : Occurrences(children_map[key], page) > 0}
  IN  IF keys = {} THEN 0
      ELSE IF Cardinality(keys) > 1 THEN 2
      ELSE Occurrences(children_map[CHOOSE key \in keys : TRUE], page)

\* every page has no ancestors or its immediate ancestor in the list
ParentsPresent ==
  \A k \in Positions : pages[k].ancestors = <<>> \/ LastAncestor(pages[k]) \in Ids

\* the parent of a page within the export set, 0 for none
ParentIn(page) ==
  IF page.ancestors # <<>> /\ LastAncestor(page) \in Ids THEN LastAncestor(page) ELSE 0
PageOf(id) == pages[CHOOSE k \in Positions : pages[k].id = id]

\* the id reached from id by n steps to the parent, 0 once past a root
RECURSIVE Climb(_, _)
Climb(id, n) ==
  IF id = 0 \/ n = 0 THEN id ELSE Climb(ParentIn(PageOf(id)), n - 1)
Acyclic == \A id \in Ids : Climb(id, Len(pages)) = 0
Depth(id) == CHOOSE n \in 0..Len(pages) : Climb(id, n) # 0 /\ Climb(id, n + 1) = 0

\* the ids reachable from the roots through children_map in at most n steps
RECURSIVE ReachableIn(_)
ReachableIn(n) ==
  IF n = 0 THEN {roots[j].id : j \in 1..Len(roots)}
  ELSE LET before == ReachableIn(n - 1)
       IN  before \cup UNION {{children_map[key][j].id : j \in 1..Len(children_map[key])} :
                                key \in before \cap DOMAIN children_map}

\* C1: when every page has no ancestors or has its immediate ancestor in the list,
\* build_hierarchy's roots are exactly the pages without ancestors, every page occurs
\* exactly once, in roots or in one parent's children list, and the lists hold nothing
\* but pages of the list under keys that are ids of the list
C1_RootsAndChildrenPartition ==
  (Built /\ ParentsPresent) =>
    /\ \A k \in Positions : (InRoots(pages[k]) > 0) <=> (pages[k].ancestors = <<>>)
    /\ \A k \in Positions : InRoots(pages[k]) + InChildren(pages[k]) = 1
    /\ \A j \in 1..Len(roots) : \E k \in Positions : roots[j] = pages[k]
    /\ DOMAIN children_map \subseteq Ids
    /\ \A key \in DOMAIN children_map : \A j \in 1..Len(children_map[key]) :
         \E k \in Positions : children_map[key][j] = pages[k]

C1_Witness ==
  /\ Built /\ ParentsPresent
  /\ Len(pages) >= 3
  /\ Len(roots) >= 1
  /\ \E key \in DOMAIN children_map : Len(children_map[key]) >= 2

\* C2: a page whose immediate ancestor is not in the list is in roots and in no children
\* list, whatever its earlier ancestors; a page whose immediate ancestor is in the list
\* is in the children list of that ancestor and nowhere else
C2_ImmediateAncestorDecides ==
  Built =>
    \A k \in Positions :
      pages[k].ancestors # <<>> =>
        IF LastAncestor(pages[k]) \notin Ids
        THEN InRoots(pages[k]) = 1 /\ InChildren(pages[k]) = 0
        ELSE /\ InRoots(pages[k]) = 0
             /\ InChildren(pages[k]) = 1
             /\ Occurrences(children_map[LastAncestor(pages[k])], pages[k]) = 1

C2_Witness ==
  /\ Built
  /\ \E k \in Positions :
       /\ Len(pages[k].ancestors) = 2
       /\ pages[k].ancestors[1] \in Ids
       /\ LastAncestor(pages[k]) \notin Ids
       /\ InRoots(pages[k]) = 1
  /\ \E k \in Positions :
       /\ Len(pages[k].ancestors) = 2
       /\ pages[k].ancestors[1] \notin Ids
       /\ LastAncestor(pages[k]) \in Ids
       /\ InChildren(pages[k]) = 1

\* C10: when the immediate-parent relation of the export set is acyclic, every page is
\* reachable from the roots, determine_page_paths gives a path to the ids of the export
\* set and to no other, and no lookup of a page's path fails
C10_EveryPageHasAPath ==
  (Built /\ Acyclic) =>
    /\ ReachableIn(Len(pages)) = Ids
    /\ Assigned => DOMAIN page_paths = Ids
    /\ pc # "KeyError"

C10_Witness ==
  /\ pc = "done" /\ Built /\ Acyclic
  /\ \E id \in Ids : Depth(id) = 2
  /\ DOMAIN page_paths = Ids

(***************************************************************************)
(* Properties of the assigned paths and of the index.                      *)
(***************************************************************************)
\* C3: every assigned path is the output root (for a root of the hierarchy) or the
\* parent's assigned path (for a child) plus exactly one segment, the sanitized title,
\* for every title
C3_PathIsParentPathPlusOneSegment ==
  Assigned =>
    \A k \in Positions :
      (/\ pages[k].id \in DOMAIN page_paths
       /\ ParentIn(pages[k]) # 0 => ParentIn(pages[k]) \in DOMAIN page_paths) =>
        LET base == IF ParentIn(pages[k]) = 0 THEN OutputDir
                    ELSE page_paths[ParentIn(pages[k])]
        IN  /\ Len(page_paths[pages[k].id]) = Len(base) + 1
            /\ page_paths[pages[k].id] = Append(base, sanitize_filename(pages[k].title))

IndexPath == Append(OutputDir, IndexFileName)
IndexWritten == pc = "done" /\ pages # <<>> /\ IndexPath \in DOMAIN files
IndexLines == files[IndexPath].lines
LinePos(id) == CHOOSE j \in 1..Len(IndexLines) : IndexLines[j].page = id
IsDescendant(id, ancestor) == \E n \in 1..Len(pages) : Climb(id, n) = ancestor

\* C9: the index holds one line per page of the export set, a parent's line before its
\* descendants' and these right after it (depth first), roots and the children of a
\* page in ascending order of title, two spaces of indentation per level, each line
\* linking to the page's path relative to the output root, then /index.md
C9_IndexIsSortedDepthFirstListing ==
  IndexWritten =>
    /\ files[IndexPath].exported = Len(pages)
    /\ Len(IndexLines) = Len(pages)
    /\ {IndexLines[j].page : j \in 1..Len(IndexLines)} = Ids
    /\ \A id \in Ids :
         LET line == IndexLines[LinePos(id)]
         IN  /\ line.title = PageOf(id).title
             /\ line.indent = Rep(" ", 2 * Depth(id))
             /\ line.link = PathStr(RelativeTo(page_paths[id], OutputDir))
                              \o <<"/">> \o IndexMdName
    /\ \A id \in Ids : \A d \in Ids :
         IsDescendant(d, id) =>
           /\ LinePos(id) < LinePos(d)
           /\ \A j \in (LinePos(id) + 1)..(LinePos(d) - 1) :
                IsDescendant(IndexLines[j].page, id)
    /\ \A id \in Ids : \A other \in Ids :
         (/\ ParentIn(PageOf(id)) = ParentIn(PageOf(other))
          /\ LinePos(id) < LinePos(other)) =>
           ~StrLess(PageOf(other).title, PageOf(id).title)

C9_Witness ==
  /\ IndexWritten
  /\ \E key \in DOMAIN children_map :
       /\ Len(children_map[key]) = 2
       /\ StrLess(children_map[key][2].title, children_map[key][1].title)
       /\ LinePos(key) < LinePos(children_map[key][2].id)
       /\ LinePos(children_map[key][2].id) < LinePos(children_map[key][1].id)

(***************************************************************************)
(* Properties of the order of the steps.                                   *)
(***************************************************************************)
PageSteps(k) ==
  <<<<"CreateDir", k>>, <<"DownloadAttachments", k>>, <<"BuildMarkdown", k>>,
    <<"WriteFile", k>>>>
RECURSIVE AllPageSteps(_)
AllPageSteps(k) == IF k = 0 THEN <<>> ELSE AllPageSteps(k - 1) \o PageSteps(k)

\* the steps of a complete run over n pages
FullRun(n) ==
  IF n = 0 THEN <<<<"FetchPages", 0>>>>
  ELSE <<<<"FetchPages", 0>>, <<"BuildHierarchy", 0>>, <<"AssignPaths", 0>>>>
         \o AllPageSteps(n) \o <<<<"WriteIndex", 0>>>>

PageIndexMd(k) == Append(page_paths[pages[k].id], IndexMdName)

\* C4: the steps of a run are, in this order, FetchPages, BuildHierarchy, AssignPaths,
\* then for each page in fetch order CreateDir, DownloadAttachments, BuildMarkdown,
\* WriteFile, then WriteIndex; a run that is done has taken all of them, each once;
\* nothing is written before every path is assigned; INDEX.md is written after every
\* page's index.md; with no page fetched the run is done with nothing created but the
\* output directory
C4_StepsInOrder ==
  /\ pc # "start" => IsPrefix(trace, FullRun(Len(pages)))
  /\ pc = "start" => trace = <<>>
  /\ pc = "done" => trace = FullRun(Len(pages))
  /\ (files # EmptyDict \/ dirs \notin {{}, {OutputDir}}) =>
       /\ Assigned
       /\ page_paths = determine_page_paths(EmptyDict, build_hierarchy(pages).roots,
                                           build_hierarchy(pages).children_map)
  /\ IndexPath \in DOMAIN files =>
       \A k \in Positions : PageIndexMd(k) \in DOMAIN files
  /\ (pc = "done" /\ pages = <<>>) => (files = EmptyDict /\ dirs = {OutputDir})

C4_Witness ==
  /\ pc = "done"
  /\ Len(pages) >= 2
  /\ IndexPath \in DOMAIN files
  /\ Len(trace) = 4 + 4 * Len(pages)

(***************************************************************************)
(* Properties of the attachments and of the link substitution.             *)
(***************************************************************************)
Downloading == pc \in {"markdown", "write"}
CurrentAttachments == pages[idx].attachments
CurrentAttachmentsDir == PathJoin(page_paths[pages[idx].id], AttachmentsName)

\* the lines printed for the attachments of the page being exported
PrintedForCurrent ==
  LET ForCurrent(line) == line[2] = idx IN SelectSeq(console, ForCurrent)
Succeeded == {j \in 1..Len(PrintedForCurrent) : PrintedForCurrent[j][1] = "Downloaded"}

\* C5: whatever transfers fail, download_attachments returns and the export of the page
\* goes on to write index.md; every attachment of a listing is tried; the mapping holds
\* the filename and the download reference of each downloaded attachment, both mapped
\* to attachments/<sanitized filename>, and no other key; without attachments the
\* mapping is empty and no attachments directory is made
C5_FailedTransfersAreSkipped ==
  /\ pc \notin {"KeyError", "OSError"}
  /\ (trace # <<>> /\ trace[Len(trace)][1] = "DownloadAttachments") => pc = "markdown"
  /\ (pc = "done" /\ pages # <<>>) => \A k \in Positions : PageIndexMd(k) \in DOMAIN files
  /\ Downloading =>
       /\ Len(PrintedForCurrent) \in {0, Len(CurrentAttachments)}
       /\ \A j \in 1..Len(PrintedForCurrent) :
            PrintedForCurrent[j][3] = CurrentAttachments[j].title
       /\ \A j \in Succeeded :
            LET attachment == CurrentAttachments[j]
                local == AttachmentsPrefix \o sanitize_filename(attachment.title)
            IN  /\ {attachment.title, attachment.download} \subseteq MapKeys(url_mapping)
                /\ MapGet(url_mapping, attachment.title) = local
                /\ MapGet(url_mapping, attachment.download) = local
                /\ PathJoin(CurrentAttachmentsDir, sanitize_filename(attachment.title))
                     \in DOMAIN files
       /\ MapKeys(url_mapping) =
            UNION {{CurrentAttachments[j].title, CurrentAttachments[j].download} :
                     j \in Succeeded}
       /\ CurrentAttachments = <<>> =>
            (url_mapping = <<>> /\ CurrentAttachmentsDir \notin dirs)

C5_Witness ==
  /\ pc = "write"
  /\ Len(CurrentAttachments) = 2
  /\ Len(PrintedForCurrent) = 2
  /\ PrintedForCurrent[1][1] = "Warning"
  /\ PrintedForCurrent[2][1] = "Downloaded"
  /\ Len(url_mapping) = 2

\* the text the substitution loop of convert_to_markdown gets for the current page
ConvertedText == Markdownify(handle_drawio_embeds(pages[idx].body))
NoValueIsAKey(mapping) ==
  \A j \in 1..Len(mapping) : mapping[j].value \notin MapKeys(mapping)

\* C6: with a mapping none of whose values is one of its keys, and so with the mappings
\* download_attachments makes, substituting twice gives the text substituting once gives
C6_SubstitutionIsIdempotent ==
  (Downloading /\ NoValueIsAKey(url_mapping)) =>
    Substitute(Substitute(ConvertedText, url_mapping, 1), url_mapping, 1)
      = Substitute(ConvertedText, url_mapping, 1)

(***************************************************************************)
(* Properties of sanitize_filename and of the date filter.                 *)
(***************************************************************************)
Chars(s) == {s[j] : j \in 1..Len(s)}

\* C7 as claimed: sanitize_filename returns a non-empty string for a non-empty input
\* with a character outside the reserved set, the empty string for the empty input and
\* for an input of reserved characters only
C7_EmptyOnlyForReservedInput ==
  Assigned =>
    \A k \in Positions :
      LET title == pages[k].title
      IN  /\ (title # <<>> /\ ~(Chars(title) \subseteq InvalidChars)) =>
               sanitize_filename(title) # <<>>
          /\ Chars(title) \subseteq InvalidChars => sanitize_filename(title) = <<>>

\* C7 as amended: sanitize_filename returns the empty string for an input made only of
\* reserved characters, whitespace and underscores (the empty input among them), and a
\* non-empty string for every input with a character of another kind
C7_EmptyOnlyForSeparatorInput ==
  Assigned =>
    \A k \in Positions :
      LET title == pages[k].title
          droppable == InvalidChars \cup Whitespace \cup {"_"}
      IN  /\ ~(Chars(title) \subseteq droppable) => sanitize_filename(title) # <<>>
          /\ Chars(title) \subseteq droppable => sanitize_filename(title) = <<>>

C7_Witness ==
  /\ Assigned
  /\ \E k \in Positions :
       /\ {"*", " ", "a"} \subseteq Chars(pages[k].title)
       /\ sanitize_filename(pages[k].title) = <<"a">>
       /\ page_paths[pages[k].id] = Append(OutputDir, <<"a">>)

\* C8: with a since date the export set is the listed pages, in listing order, whose
\* timestamp is on or after it or is missing or unparsable; without one it is every
\* listed page
C8_DateFilterFailsOpen ==
  pc # "start" =>
    pages = Pick(space, {k \in 1..Len(space) :
                           \/ since_date = NoDate
                           \/ space[k].when.kind \in {"missing", "bad"}
                           \/ space[k].when.t >= since_date})

C8_Witness ==
  /\ pc # "start"
  /\ since_date # NoDate
  /\ Len(space) = 3
  /\ space[1].when.kind = "iso" /\ space[1].when.t < since_date
  /\ space[2].when.kind = "bad"
  /\ space[3].when.kind = "iso" /\ space[3].when.t = since_date
  /\ pages = <<space[2], space[3]>>

====
